---- MODULE Spec2Model ----
(***************************************************************************)
(* Model of src/main.py (docleaner-web): the pipeline                      *)
(*   convert_pdf_to_images -> clean_doc_online -> convert_images_to_pdf    *)
(* as three coroutines of one Python thread (two generators and the        *)
(* consuming for-loop) plus the remote docleaner page as environment.      *)
(***************************************************************************)
EXTENDS Integers, Sequences, FiniteSets, TLC

\* Largest document (doc.page_count) and largest page argument explored.
MaxPages == 3

\* Python's None for the Optional[int] / Optional[StrPath] arguments.
None == -1

\* An `output` directory given to convert_pdf_to_images.
OutputDir == 0

\* Values flowing through the generators: file names f"{i}.{fmt}" (str) and
\* decoded PIL images.  The page index identifies the content.
Path(j) == [kind |-> "str", page |-> j]

\* The empty string "" yielded at line 162.
EmptyStr == Path(-1)

\* Image.open(io.BytesIO(base64.b64decode(src))) of the result shown for upload p.
Cleaned(p) == [kind |-> "image", page |-> p.page]

KnownBrowsers == {"chrome", "firefox", "safari", "edge"}

VARIABLES
    \* ---- arguments of main ----
    page_count,     \* doc.page_count of the input pdf
    first_page,     \* --first-page (1-based, or None)
    last_page,      \* --last-page  (1-based inclusive, or None)
    output,         \* `output` argument of convert_pdf_to_images (None: temp dir)
    clean,          \* --clean/--dont-clean
    ocr,            \* --ocr/--no-ocr
    browser,        \* --browser
    \* ---- convert_pdf_to_images generator ----
    gpc,            \* "start" | "yielded" (l.154) | "sentinel" (l.162) | "done" | "raised" | "closed"
    i,              \* loop variable of line 150
    dirAlive,       \* the directory `path` of line 149 exists
    rendered,       \* page indices rendered so far (line 153), in order
    \* ---- clean_doc_online generator ----
    cpc,            \* "start" | "submit0" | "fetch" | "wait" | "yield" | "quit" | "done" | "raised" | "closed"
    next_image,     \* local of line 94
    browserOpen,    \* a webdriver session exists and browser.quit() has not run
    submitted,      \* arguments of uploader.send_keys, in order
    retrieved,      \* uploads whose result src was read (line 103), in order
    yielded,        \* images yielded at line 106, in order
    \* ---- the remote page ----
    processing,     \* uploads the remote side has not finished yet
    resultVisible,  \* #dragImgRight is visible
    resultSrc,      \* the upload whose result #dragImgRight shows
    \* ---- main / convert_images_to_pdf ----
    mainpc,         \* "loop" (l.179) | "body" (l.180-190) | "save" (l.191) | "done" | "failed"
    image,          \* loop variable of line 179
    delivered,      \* items the for loop of line 179 received, in order
    assembled,      \* items inserted into doc (lines 183/186-190), in order
    saved,          \* doc.save(output) has completed
    error,          \* the exception that was raised, "none" if none
    \* ---- the parallel strategy (worker pool) ----
    pool            \* state of the run, pages at work, reordering buffer, hand-off

argv  == <<page_count, first_page, last_page, output, clean, ocr, browser>>
gvars == <<gpc, i, dirAlive, rendered>>
cvars == <<cpc, next_image, browserOpen, submitted, retrieved, yielded>>
rvars == <<processing, resultVisible, resultSrc>>
mvars == <<mainpc, image, delivered, assembled, saved, error>>
vars  == <<argv, gvars, cvars, rvars, mvars, pool>>

----------------------------------------------------------------------------
\* Lines 146-147: normalisation of the 1-based inclusive bounds.
FirstIdx == IF first_page = None THEN 0 ELSE first_page - 1
\* LastIdx with the inclusive bound made 0-based like first_page.
LastIdx_exclusive == IF last_page = None THEN page_count ELSE last_page - 1

LastIdx  == IF last_page = None THEN page_count ELSE last_page

\* Number of indices in range(first_page, last_page) of line 150.
RangeLen == IF LastIdx > FirstIdx THEN LastIdx - FirstIdx ELSE 0

\* Results of next(images): a value, StopIteration, or another exception.
Value(v) == [kind |-> "value", val |-> v]
Stop     == [kind |-> "stop",  val |-> EmptyStr]
Err      == [kind |-> "error", val |-> EmptyStr]
Results  == {Value(Path(j)) : j \in -1 .. MaxPages + 1} \cup {Stop, Err}

\* Leaving the `with` block of line 148: a TemporaryDirectory is removed,
\* normal_dir (lines 139-143) leaves the directory in place.
WithExit == dirAlive' = (output # None)

\* RenderLoop with the file names yielded after the `with` block was left:
\* a temporary directory is already removed when a name reaches the caller.
RenderLoop_cleanup(j, r) ==
    IF j < LastIdx
    THEN /\ i' = j
         /\ IF j >= page_count
            THEN /\ r = Err
                 /\ gpc' = "raised"
                 /\ WithExit
                 /\ UNCHANGED rendered
            ELSE \/ /\ r = Value(Path(j))
                    /\ gpc' = "yielded"
                    /\ rendered' = Append(rendered, j)
                    /\ WithExit
                 \/ /\ r = Err
                    /\ gpc' = "raised"
                    /\ WithExit
                    /\ UNCHANGED rendered
    ELSE /\ UNCHANGED <<i, rendered>>
         /\ IF output = None
            THEN /\ r = Value(EmptyStr)
                 /\ gpc' = "sentinel"
                 /\ WithExit
            ELSE /\ r = Stop
                 /\ gpc' = "done"
                 /\ WithExit

\* Lines 150-162 from the loop head with index j: render and yield the next
\* page, or finish the range.  doc[j] raises for an index outside the
\* document; rendering itself may fail.
RenderLoop(j, r) ==
    IF j < LastIdx
    THEN /\ i' = j
         /\ IF j >= page_count
            THEN /\ r = Err
                 /\ gpc' = "raised"
                 /\ WithExit
                 /\ UNCHANGED rendered
            ELSE \/ /\ r = Value(Path(j))
                    /\ gpc' = "yielded"
                    /\ rendered' = Append(rendered, j)
                    /\ dirAlive' = TRUE
                 \/ /\ r = Err
                    /\ gpc' = "raised"
                    /\ WithExit
                    /\ UNCHANGED rendered
    ELSE /\ UNCHANGED <<i, rendered>>
         /\ IF output = None
            THEN /\ r = Value(EmptyStr)
                 /\ gpc' = "sentinel"
                 /\ dirAlive' = TRUE
            ELSE /\ r = Stop
                 /\ gpc' = "done"
                 /\ WithExit

\* next(images) on the convert_pdf_to_images generator, with result r.
GenNext(r) ==
    CASE gpc = "start"    -> RenderLoop(FirstIdx, r)
      [] gpc = "yielded"  -> RenderLoop(i + 1, r)
      [] gpc = "sentinel" -> /\ r = Stop
                             /\ gpc' = "done"
                             /\ WithExit
                             /\ UNCHANGED <<i, rendered>>
      [] OTHER            -> /\ r = Stop
                             /\ UNCHANGED gvars

----------------------------------------------------------------------------
\* uploader.send_keys(v), lines 88 and 111.
SendKeys(v) ==
    /\ submitted' = Append(submitted, v)
    /\ processing' = Append(processing, v)

\* CleanRaise with the handler of line 112 widened to `except Exception`:
\* the error is treated like the end of the input.
CleanRaise_swallow(e) ==
    /\ cpc' = "quit"
    /\ error' = e
    /\ UNCHANGED mainpc

\* An exception other than StopIteration inside clean_doc_online: the
\* `except StopIteration` of line 112 does not match, the generator is left
\* without reaching line 115, and the exception travels through the for loop
\* of line 179 out of main.
CleanRaise(e) ==
    /\ cpc' = "raised"
    /\ mainpc' = "failed"
    /\ error' = e

\* MainRaise with the failing page skipped and the loop continued.
MainRaise_skip(e) ==
    /\ mainpc' = "loop"
    /\ error' = e

\* An exception raised in convert_images_to_pdf / main itself.
MainRaise(e) ==
    /\ mainpc' = "failed"
    /\ error' = e

----------------------------------------------------------------------------
\* The parallel strategy: a pool of NWorkers workers, each running the whole
\* chain for one page, and a reordering buffer keyed by page index that the
\* driver drains in index order.

\* Workers of the pool.
NWorkers == 2

\* No run started: nothing at work, empty buffer, nothing handed over.
\*   busy      pages a worker is processing
\*   slots     pages whose artifact waits in the reordering buffer
\*   completed pages in the order their workers finished
\*   handed    pages in the order their artifacts reached the Assembler
PoolIdle ==
    [state |-> "idle", busy |-> {}, slots |-> {}, completed |-> <<>>, handed |-> <<>>]

\* The driver starts the run on the requests of the page range.
PoolStart ==
    /\ pool.state = "idle"
    /\ pool' = [pool EXCEPT !.state = "running"]
    /\ UNCHANGED <<argv, gvars, cvars, rvars, mvars>>

\* The next request, in page order, goes to a free worker.
PoolDispatch ==
    /\ pool.state = "running"
    /\ Cardinality(pool.busy) < NWorkers
    /\ LET p == FirstIdx + Cardinality(pool.busy) + Len(pool.completed)
       IN  /\ p < LastIdx
           /\ pool' = [pool EXCEPT !.busy = @ \cup {p}]
    /\ UNCHANGED <<argv, gvars, cvars, rvars, mvars>>

\* A worker finishes its page, whichever worker is first, and writes the
\* artifact into the slot of its page index.
PoolComplete ==
    /\ pool.state = "running"
    /\ \E p \in pool.busy :
         /\ p < page_count
         /\ pool' = [pool EXCEPT !.busy = @ \ {p},
                                 !.slots = @ \cup {p},
                                 !.completed = Append(@, p)]
    /\ UNCHANGED <<argv, gvars, cvars, rvars, mvars>>

\* A worker fails (Renderer, Cleaner or Recognizer error; a page outside the
\* document always fails): the whole run fails.
PoolFail ==
    /\ pool.state = "running"
    /\ \E p \in pool.busy :
         pool' = [pool EXCEPT !.state = "failed"]
    /\ UNCHANGED <<argv, gvars, cvars, rvars, mvars>>

\* PoolDrain forwarding any finished artifact as it arrives.
PoolDrain_unordered ==
    /\ pool.state = "running"
    /\ \E p \in pool.slots :
         pool' = [pool EXCEPT !.slots = @ \ {p},
                              !.handed = Append(@, p)]
    /\ UNCHANGED <<argv, gvars, cvars, rvars, mvars>>

\* The driver hands the artifact of the next page index to the Assembler once
\* its slot is filled.
PoolDrain ==
    /\ pool.state = "running"
    /\ LET p == FirstIdx + Len(pool.handed)
       IN  /\ p \in pool.slots
           /\ pool' = [pool EXCEPT !.slots = @ \ {p},
                                   !.handed = Append(@, p)]
    /\ UNCHANGED <<argv, gvars, cvars, rvars, mvars>>

\* Every artifact of the range has been handed over.
PoolFinish ==
    /\ pool.state = "running"
    /\ Len(pool.handed) = RangeLen
    /\ pool' = [pool EXCEPT !.state = "done"]
    /\ UNCHANGED <<argv, gvars, cvars, rvars, mvars>>

----------------------------------------------------------------------------
Init ==
    /\ page_count \in 1 .. MaxPages
    /\ first_page \in {None} \cup (1 .. MaxPages + 1)
    /\ last_page \in {None} \cup (1 .. MaxPages + 1)
    /\ output \in {None, OutputDir}
    /\ clean \in BOOLEAN
    /\ ocr \in BOOLEAN
    /\ browser \in {"chrome", "netscape"}
    /\ gpc = "start"
    /\ i = 0
    /\ dirAlive = FALSE
    /\ rendered = <<>>
    /\ cpc = "start"
    /\ next_image = EmptyStr
    /\ browserOpen = FALSE
    /\ submitted = <<>>
    /\ retrieved = <<>>
    /\ yielded = <<>>
    /\ processing = <<>>
    /\ resultVisible = FALSE
    /\ resultSrc = EmptyStr
    /\ mainpc = "loop"
    /\ image = EmptyStr
    /\ delivered = <<>>
    /\ assembled = <<>>
    /\ saved = FALSE
    /\ error = "none"
    /\ pool = PoolIdle

\* main (lines 212-213) always calls convert_pdf_to_images without `output`.
MainInit == Init /\ output = None

----------------------------------------------------------------------------
\* The remote page finishes an upload and shows its result in #dragImgRight.
RemoteFinish ==
    /\ browserOpen
    /\ processing # <<>>
    /\ resultVisible' = TRUE
    /\ resultSrc' = Head(processing)
    /\ processing' = Tail(processing)
    /\ UNCHANGED <<pool, argv, gvars, cvars, mvars>>

\* Lines 52-85, run by the first next() of the for loop (line 179): start the
\* browser, load the page, switch the two options on, locate the uploader.
Open ==
    /\ mainpc = "loop"
    /\ clean
    /\ cpc = "start"
    /\ IF browser \notin KnownBrowsers
       THEN /\ CleanRaise("config")
            /\ UNCHANGED browserOpen
       ELSE /\ browserOpen' = TRUE
            /\ \/ /\ cpc' = "submit0"
                  /\ UNCHANGED <<mainpc, error>>
               \/ CleanRaise("session")
    /\ UNCHANGED <<pool, argv, gvars, rvars>>
    /\ UNCHANGED <<next_image, submitted, retrieved, yielded>>
    /\ UNCHANGED <<image, delivered, assembled, saved>>

\* Line 88: uploader.send_keys(next(images)).
FirstSubmit ==
    /\ cpc = "submit0"
    /\ \E r \in Results :
         /\ GenNext(r)
         /\ CASE r.kind = "value" ->
                   \/ /\ SendKeys(r.val)
                      /\ cpc' = "fetch"
                      /\ UNCHANGED <<mainpc, error>>
                   \/ /\ CleanRaise("session")
                      /\ UNCHANGED <<submitted, processing>>
              [] r.kind = "stop" ->
                   /\ cpc' = "quit"
                   /\ UNCHANGED <<mainpc, error, submitted, processing>>
              [] OTHER ->
                   /\ CleanRaise("render")
                   /\ UNCHANGED <<submitted, processing>>
    /\ UNCHANGED <<pool, argv, next_image, browserOpen, retrieved, yielded>>
    /\ UNCHANGED <<resultVisible, resultSrc>>
    /\ UNCHANGED <<image, delivered, assembled, saved>>

\* Fetch with the fetched page uploaded at once, before the wait of line 96.
Fetch_eager ==
    /\ cpc = "fetch"
    /\ \E r \in Results :
         /\ GenNext(r)
         /\ CASE r.kind = "value" ->
                   /\ next_image' = r.val
                   /\ SendKeys(r.val)
                   /\ cpc' = "wait"
                   /\ UNCHANGED <<mainpc, error>>
              [] r.kind = "stop" ->
                   /\ cpc' = "quit"
                   /\ UNCHANGED <<next_image, mainpc, error, submitted, processing>>
              [] OTHER ->
                   /\ CleanRaise("render")
                   /\ UNCHANGED <<next_image, submitted, processing>>
    /\ UNCHANGED <<pool, argv, resultVisible, resultSrc>>
    /\ UNCHANGED <<browserOpen, retrieved, yielded>>
    /\ UNCHANGED <<image, delivered, assembled, saved>>

\* Fetch with the empty-string test of line 107 made right after line 94,
\* before the wait of line 96.
Fetch_breakearly ==
    /\ cpc = "fetch"
    /\ \E r \in Results :
         /\ GenNext(r)
         /\ CASE r.kind = "value" ->
                   /\ next_image' = r.val
                   /\ cpc' = (IF r.val = EmptyStr THEN "quit" ELSE "wait")
                   /\ UNCHANGED <<mainpc, error>>
              [] r.kind = "stop" ->
                   /\ cpc' = "quit"
                   /\ UNCHANGED <<next_image, mainpc, error>>
              [] OTHER ->
                   /\ CleanRaise("render")
                   /\ UNCHANGED next_image
    /\ UNCHANGED <<pool, argv, rvars>>
    /\ UNCHANGED <<browserOpen, submitted, retrieved, yielded>>
    /\ UNCHANGED <<image, delivered, assembled, saved>>

\* Line 94: next_image = next(images), while the upload is being processed.
Fetch ==
    /\ cpc = "fetch"
    /\ \E r \in Results :
         /\ GenNext(r)
         /\ CASE r.kind = "value" ->
                   /\ next_image' = r.val
                   /\ cpc' = "wait"
                   /\ UNCHANGED <<mainpc, error>>
              [] r.kind = "stop" ->
                   /\ cpc' = "quit"
                   /\ UNCHANGED <<next_image, mainpc, error>>
              [] OTHER ->
                   /\ CleanRaise("render")
                   /\ UNCHANGED next_image
    /\ UNCHANGED <<pool, argv, rvars>>
    /\ UNCHANGED <<browserOpen, submitted, retrieved, yielded>>
    /\ UNCHANGED <<image, delivered, assembled, saved>>

\* WaitResult without the execute_script of lines 101-102: the result
\* element stays visible.
WaitResult_nohide ==
    /\ cpc = "wait"
    /\ resultVisible
    /\ retrieved' = Append(retrieved, resultSrc)
    /\ yielded' = Append(yielded, Cleaned(resultSrc))
    /\ cpc' = "yield"
    /\ image' = Cleaned(resultSrc)
    /\ delivered' = Append(delivered, Cleaned(resultSrc))
    /\ mainpc' = "body"
    /\ UNCHANGED <<pool, argv, gvars, rvars>>
    /\ UNCHANGED <<next_image, browserOpen, submitted>>
    /\ UNCHANGED <<assembled, saved, error>>

\* WaitResult with the page fetched at line 94 uploaded before the yield.
WaitResult_submitfirst ==
    /\ cpc = "wait"
    /\ resultVisible
    /\ resultVisible' = FALSE
    /\ retrieved' = Append(retrieved, resultSrc)
    /\ yielded' = Append(yielded, Cleaned(resultSrc))
    /\ cpc' = "yield"
    /\ image' = Cleaned(resultSrc)
    /\ delivered' = Append(delivered, Cleaned(resultSrc))
    /\ mainpc' = "body"
    /\ IF next_image = EmptyStr
       THEN UNCHANGED <<submitted, processing>>
       ELSE SendKeys(next_image)
    /\ UNCHANGED <<pool, argv, gvars>>
    /\ UNCHANGED <<next_image, browserOpen, resultSrc>>
    /\ UNCHANGED <<assembled, saved, error>>

\* Lines 96-106: the wait returns the visible result element, the element is
\* hidden again, its src is decoded and the image is yielded to the for loop.
WaitResult ==
    /\ cpc = "wait"
    /\ resultVisible
    /\ resultVisible' = FALSE
    /\ retrieved' = Append(retrieved, resultSrc)
    /\ yielded' = Append(yielded, Cleaned(resultSrc))
    /\ cpc' = "yield"
    /\ image' = Cleaned(resultSrc)
    /\ delivered' = Append(delivered, Cleaned(resultSrc))
    /\ mainpc' = "body"
    /\ UNCHANGED <<pool, argv, gvars>>
    /\ UNCHANGED <<next_image, browserOpen, submitted>>
    /\ UNCHANGED <<processing, resultSrc>>
    /\ UNCHANGED <<assembled, saved, error>>

\* Line 96: WebDriverWait(browser, timeout).until(...) expires.
WaitTimeout ==
    /\ cpc = "wait"
    /\ ~resultVisible
    /\ CleanRaise("session")
    /\ UNCHANGED <<pool, argv, gvars, rvars>>
    /\ UNCHANGED <<next_image, browserOpen, submitted, retrieved, yielded>>
    /\ UNCHANGED <<image, delivered, assembled, saved>>

\* Resume that goes back to line 94 without the upload of line 111.
Resume_noupload ==
    /\ mainpc = "loop"
    /\ clean
    /\ cpc = "yield"
    /\ cpc' = (IF next_image = EmptyStr THEN "quit" ELSE "fetch")
    /\ UNCHANGED <<pool, argv, gvars, rvars, mvars>>
    /\ UNCHANGED <<next_image, browserOpen, submitted, retrieved, yielded>>

\* Lines 107-111, run when the for loop asks for the next image: leave the
\* loop on the empty string, otherwise upload the page fetched at line 94.
Resume ==
    /\ mainpc = "loop"
    /\ clean
    /\ cpc = "yield"
    /\ IF next_image = EmptyStr
       THEN /\ cpc' = "quit"
            /\ UNCHANGED <<mainpc, error, submitted, processing>>
       ELSE \/ /\ SendKeys(next_image)
               /\ cpc' = "fetch"
               /\ UNCHANGED <<mainpc, error>>
            \/ /\ CleanRaise("session")
               /\ UNCHANGED <<submitted, processing>>
    /\ UNCHANGED <<pool, argv, gvars>>
    /\ UNCHANGED <<next_image, browserOpen, retrieved, yielded>>
    /\ UNCHANGED <<resultVisible, resultSrc>>
    /\ UNCHANGED <<image, delivered, assembled, saved>>

\* Line 115: browser.quit(); the generator returns and the for loop ends.
Quit ==
    /\ cpc = "quit"
    /\ browserOpen' = FALSE
    /\ cpc' = "done"
    /\ mainpc' = "save"
    /\ UNCHANGED <<pool, argv, gvars, rvars>>
    /\ UNCHANGED <<next_image, submitted, retrieved, yielded>>
    /\ UNCHANGED <<image, delivered, assembled, saved, error>>

\* Line 179 with --dont-clean: the for loop iterates convert_pdf_to_images
\* directly (lines 212-215).
MainNext ==
    /\ mainpc = "loop"
    /\ ~clean
    /\ \E r \in Results :
         /\ GenNext(r)
         /\ CASE r.kind = "value" ->
                   /\ image' = r.val
                   /\ delivered' = Append(delivered, r.val)
                   /\ mainpc' = "body"
                   /\ UNCHANGED error
              [] r.kind = "stop" ->
                   /\ mainpc' = "save"
                   /\ UNCHANGED <<image, delivered, error>>
              [] OTHER ->
                   /\ MainRaise("render")
                   /\ UNCHANGED <<image, delivered>>
    /\ UNCHANGED <<pool, argv, cvars, rvars>>
    /\ UNCHANGED <<assembled, saved>>

\* Lines 180-190: one iteration of the assembler loop.  OCR (pytesseract)
\* takes an image or the name of an image file and may fail; the empty string
\* names no file.  Without OCR, image.width exists only on an image, not on
\* a str.
Body ==
    /\ mainpc = "body"
    /\ \/ /\ image # EmptyStr
          /\ ocr \/ image.kind = "image"
          /\ assembled' = Append(assembled, image)
          /\ mainpc' = "loop"
          /\ UNCHANGED error
       \/ /\ MainRaise(IF ocr THEN "ocr" ELSE "assembly")
          /\ UNCHANGED assembled
    /\ UNCHANGED <<pool, argv, gvars, cvars, rvars>>
    /\ UNCHANGED <<image, delivered, saved>>

\* Line 191: doc.save(output).
Save ==
    /\ mainpc = "save"
    /\ \/ /\ saved' = TRUE
          /\ mainpc' = "done"
          /\ UNCHANGED error
       \/ /\ MainRaise("assembly")
          /\ UNCHANGED saved
    /\ UNCHANGED <<pool, argv, gvars, cvars, rvars>>
    /\ UNCHANGED <<image, delivered, assembled>>

\* The for loop was left by an exception while clean_doc_online is suspended
\* at line 106: the abandoned generator is closed, GeneratorExit is raised at
\* the yield, `except StopIteration` does not match it, line 115 is skipped.
CloseClean ==
    /\ mainpc = "failed"
    /\ cpc = "yield"
    /\ cpc' = "closed"
    /\ UNCHANGED <<pool, argv, gvars, rvars, mvars>>
    /\ UNCHANGED <<next_image, browserOpen, submitted, retrieved, yielded>>

\* convert_pdf_to_images is suspended at a yield (line 154 or 162) when its
\* consumer is gone: closing the generator leaves the `with` block.
CloseImages ==
    /\ mainpc \in {"failed", "done"}
    /\ cpc # "yield"
    /\ gpc \in {"yielded", "sentinel"}
    /\ gpc' = "closed"
    /\ WithExit
    /\ UNCHANGED <<pool, argv, cvars, rvars, mvars>>
    /\ UNCHANGED <<i, rendered>>

Next ==
    \/ RemoteFinish
    \/ Open
    \/ FirstSubmit
    \/ Fetch
    \/ WaitResult
    \/ WaitTimeout
    \/ Resume
    \/ Quit
    \/ MainNext
    \/ Body
    \/ Save
    \/ CloseClean
    \/ CloseImages

\* The program as started from main.
Spec == MainInit /\ [][Next]_vars

\* The three functions composed with either kind of image directory.
SpecLib == Init /\ [][Next]_vars

----------------------------------------------------------------------------
NextPool ==
    \/ PoolStart
    \/ PoolDispatch
    \/ PoolComplete
    \/ PoolFail
    \/ PoolDrain
    \/ PoolFinish

\* A run of the parallel strategy on the page range of main's arguments.
SpecPool == MainInit /\ [][NextPool]_vars

\* A page range a caller may ask for: 1 <= first <= last <= page_count.
ValidRange == 0 <= FirstIdx /\ FirstIdx < LastIdx /\ LastIdx <= page_count

\* Uploads whose result has not been read yet.
InFlight == Len(submitted) - Len(retrieved)

\* s is an initial segment of t.
IsPrefix(s, t) ==
    /\ Len(s) <= Len(t)
    /\ \A k \in 1 .. Len(s) : s[k] = t[k]

\* C1: at most one page is in flight in every reachable state: the number of
\* uploads exceeds the number of retrieved results by at most one, and the
\* remote page never holds more than one unfinished or unread result.
C1_AtMostOneInFlight ==
    /\ InFlight \in {0, 1}
    /\ Len(processing) + (IF resultVisible THEN 1 ELSE 0) <= 1

\* C1 witness: a second page has been uploaded after the first result was read.
C1_SecondPageInFlight ==
    /\ Len(submitted) = 2
    /\ Len(retrieved) = 1
    /\ cpc = "fetch"

\* C2: uploads and retrievals alternate strictly, and when clean_doc_online
\* has run to completion without an error there were exactly P uploads and
\* exactly P retrievals, P the number of pages of the requested range.
C2_ExactlyPAlternating ==
    /\ InFlight \in {0, 1}
    /\ (cpc = "done" /\ error = "none") =>
           /\ Len(submitted) = RangeLen
           /\ Len(retrieved) = RangeLen

\* C3: when the session has been closed at the end of the input, the result
\* of every uploaded page has been retrieved and yielded.
C3_NoStrandedResult ==
    cpc = "done" =>
        \A k \in 1 .. Len(submitted) :
            submitted[k] # EmptyStr =>
                /\ k <= Len(yielded)
                /\ yielded[k] = Cleaned(submitted[k])

\* C4: whenever clean_doc_online has been left after its first upload, by
\* returning or by an exception, the browser session is closed.
C4_ClosedOnEveryExit ==
    (cpc \in {"done", "raised"} /\ submitted # <<>>) => ~browserOpen

\* C5: when the consumer has aborted and the suspended clean_doc_online
\* generator has been closed, the browser session is closed.
C5_ClosedOnConsumerAbort ==
    (mainpc = "failed" /\ cpc = "closed") => ~browserOpen

\* C6: the k-th image yielded is the cleaned k-th page of the range, results
\* are read in upload order, and with cleaning on the assembler loop receives
\* and assembles exactly the yielded images in that order.
C6_PageOrder ==
    /\ \A k \in 1 .. Len(yielded) : yielded[k] = Cleaned(Path(FirstIdx + k - 1))
    /\ IsPrefix(retrieved, submitted)
    /\ clean => delivered = yielded
    /\ IsPrefix(assembled, delivered)

\* C6 witness: three cleaned pages went through the assembler loop.
C6_ThreePagesAssembled ==
    /\ clean
    /\ Len(yielded) = 3
    /\ Len(assembled) = 3

\* C7: for a valid range the assembler loop never receives more items than
\* the range has pages, and has received exactly that many when it ends.
C7_DeliveredCount ==
    ValidRange =>
        /\ Len(delivered) <= RangeLen
        /\ mainpc \in {"save", "done"} => Len(delivered) = RangeLen

\* C8: with first page > last page, or last page beyond the document, the
\* run does not end with the output saved.
C8_BadRangeIsError ==
    (FirstIdx >= LastIdx \/ LastIdx > page_count) => (~saved /\ mainpc # "done")

\* C9: the output is saved only when no stage raised and every page of the
\* range has been assembled.
C9_NoPartialOutput ==
    saved =>
        /\ error = "none"
        /\ \A p \in FirstIdx .. LastIdx - 1 :
               \E k \in 1 .. Len(assembled) : assembled[k].page = p

\* C9 witness: a document of at least two pages has been saved.
C9_SavedAfterAllPages ==
    /\ saved
    /\ Len(assembled) >= 2

\* C10: a stage error makes the run fail at once (it reaches main, nothing is
\* saved), and after it no page is rendered, uploaded, retrieved, yielded,
\* delivered or assembled and the error is never cleared.
C10_FailFast ==
    [][ /\ error' # "none" => (mainpc' = "failed" /\ ~saved')
        /\ error # "none" =>
               UNCHANGED <<error, rendered, submitted, retrieved, yielded,
                           delivered, assembled, saved>> ]_vars

\* C10 witness: the wait for the second page's result has expired.
C10_SecondWaitTimedOut ==
    /\ error = "session"
    /\ mainpc = "failed"
    /\ Len(submitted) = 2
    /\ Len(retrieved) = 1
    /\ cpc = "raised"

\* C11: the pages rendered are the 0-based indices first_page - 1,
\* first_page, ... in ascending order, each once, none at or beyond last_page
\* (None standing for the first and the last page of the document), and all of
\* them once convert_pdf_to_images has run through its range.
C11_RendersNormalizedRange ==
    LET lo == IF first_page = None THEN 0 ELSE first_page - 1
        hi == IF last_page = None THEN page_count ELSE last_page
    IN  /\ \A k \in 1 .. Len(rendered) :
               /\ rendered[k] = lo + k - 1
               /\ rendered[k] < hi
        /\ gpc \in {"sentinel", "done"} => Len(rendered) = (IF hi > lo THEN hi - lo ELSE 0)

\* C11 witness: 3-page document, first page 2, last page 3: indices 1 then 2
\* were rendered and the range is finished.
C11_PagesTwoAndThree ==
    /\ page_count = 3
    /\ first_page = 2
    /\ last_page = 3
    /\ rendered = <<1, 2>>
    /\ gpc = "sentinel"

\* C12: in the parallel strategy the sequence handed to the Assembler is
\* sorted by original page index whatever order the workers complete in: its
\* k-th element is the k-th page of the range, and a finished run has handed
\* over the whole range.
C12_HandedInPageOrder ==
    LET lo == IF first_page = None THEN 0 ELSE first_page - 1
        hi == IF last_page = None THEN page_count ELSE last_page
    IN  /\ \A k \in 1 .. Len(pool.handed) : pool.handed[k] = lo + k - 1
        /\ pool.state = "done" =>
               Len(pool.handed) = (IF hi > lo THEN hi - lo ELSE 0)

\* C12 witness: a finished run in which a later page completed before an
\* earlier one.
C12_OutOfOrderCompletion ==
    /\ pool.state = "done"
    /\ Len(pool.handed) >= 2
    /\ \E k \in 1 .. Len(pool.completed) - 1 :
           pool.completed[k] > pool.completed[k + 1]

\* C13: with cleaning on, every page after the first is rendered at line 94,
\* when the page rendered before it has been uploaded and its result has not
\* been retrieved yet: the rendering step starts with exactly one page in
\* flight, that page being the previously rendered one, and it is the step
\* that leads to the wait of line 96.
C13_RenderWhileInFlight ==
    [][ (clean /\ rendered # <<>> /\ rendered' # rendered) =>
            /\ cpc = "fetch"
            /\ cpc' = "wait"
            /\ InFlight = 1
            /\ Len(submitted) = Len(rendered)
            /\ submitted[Len(submitted)] = Path(rendered[Len(rendered)])
            /\ UNCHANGED <<submitted, retrieved>> ]_vars

\* C13 witness: the third page has been rendered while the second is in
\* flight and the driver is about to wait for the second page's result.
C13_ThirdRenderedSecondInFlight ==
    /\ cpc = "wait"
    /\ Len(rendered) = 3
    /\ Len(submitted) = 2
    /\ Len(retrieved) = 1

\* C14 as claimed: while the caller processes a cleaned page and a next page
\* exists, that next page has already been uploaded and is in flight.
C14_NextSubmittedBeforeYield ==
    (clean /\ mainpc = "body" /\ next_image # EmptyStr) =>
        /\ InFlight = 1
        /\ submitted[Len(submitted)] = next_image

\* C14 as amended: page k is yielded before page k+1 is uploaded.  While the
\* caller processes a cleaned page nothing is in flight and every uploaded
\* page has been yielded; each upload after the first is made by the step
\* that resumes the generator from its yield (lines 107-111), and it uploads
\* the page fetched at line 94.
C14_YieldBeforeNextSubmit ==
    /\ []((clean /\ mainpc = "body") =>
            /\ cpc = "yield"
            /\ InFlight = 0
            /\ Len(submitted) = Len(yielded))
    /\ [][ (submitted # <<>> /\ submitted' # submitted) =>
               /\ mainpc = "loop"
               /\ cpc = "yield"
               /\ Len(yielded) = Len(submitted)
               /\ submitted' = Append(submitted, next_image) ]_vars

\* C14 witness: the caller processes the first cleaned page, the second page
\* is rendered and waiting in next_image, and nothing is in flight.
C14_CallerBusyNothingInFlight ==
    /\ clean
    /\ mainpc = "body"
    /\ Len(yielded) = 1
    /\ next_image = Path(FirstIdx + 1)
    /\ InFlight = 0

\* C15: every upload and every retrieval is made on an open session, so the
\* session is opened before the first upload and none is made once it is
\* closed; the step that closes the session (browser.quit) comes only when
\* the result of every uploaded page has been retrieved; and a session that
\* clean_doc_online has closed is not opened again.
C15_SessionLifecycle ==
    /\ [][ (submitted' # submitted \/ retrieved' # retrieved) =>
               (browserOpen /\ browserOpen') ]_vars
    /\ [][ (browserOpen /\ ~browserOpen') =>
               \A k \in 1 .. Len(submitted) :
                   submitted[k] # EmptyStr =>
                       /\ k <= Len(retrieved)
                       /\ retrieved[k] = submitted[k] ]_vars
    /\ [][ cpc = "done" => (cpc' = "done" /\ ~browserOpen') ]_vars

\* C15 witness: a three-page run whose session has been closed after the
\* third result was retrieved.
C15_ClosedAfterThirdResult ==
    /\ cpc = "done"
    /\ ~browserOpen
    /\ Len(submitted) = 3
    /\ Len(retrieved) = 3

\* C16: uploads and retrievals pair 1:1 in upload order.  The results read
\* are the uploads in order; a result visible to the k-th wait is the result
\* of the k-th upload; each retrieval hides the result element again, and no
\* upload is made while a result is still visible.
C16_PairedInOrder ==
    /\ [](IsPrefix(retrieved, submitted))
    /\ []((cpc = "wait" /\ resultVisible) =>
            /\ Len(submitted) = Len(retrieved) + 1
            /\ resultSrc = submitted[Len(submitted)])
    /\ [][ retrieved' # retrieved => (resultVisible /\ ~resultVisible') ]_vars
    /\ [][ submitted' # submitted => ~resultVisible ]_vars

\* C16 witness: the second wait finds the result of the second upload.
C16_SecondWaitSeesSecondResult ==
    /\ cpc = "wait"
    /\ resultVisible
    /\ Len(submitted) = 2
    /\ Len(retrieved) = 1
    /\ resultSrc = submitted[2]

\* C17: every argument of uploader.send_keys is the file name of a rendered
\* page of the requested range, never the empty string.
C17_SentinelNeverSubmitted ==
    \A k \in 1 .. Len(submitted) :
        /\ submitted[k] # EmptyStr
        /\ submitted[k].page \in FirstIdx .. LastIdx - 1

\* C18: in temporary-directory mode the directory exists when a step has
\* uploaded a page file (the first upload follows the creation of the
\* directory within one step, line 88), and in a run without error it is
\* removed only when every rendered page has been uploaded.
C18_TempDirAliveAtSubmit ==
    /\ [][ (output = None /\ submitted' # submitted
            /\ submitted'[Len(submitted')] # EmptyStr) => dirAlive' ]_vars
    /\ [][ (output = None /\ clean /\ dirAlive /\ ~dirAlive' /\ error' = "none") =>
               /\ Len(submitted) >= Len(rendered)
               /\ \A k \in 1 .. Len(rendered) : submitted[k] = Path(rendered[k]) ]_vars

\* C18 witness: the last page of a three-page range has just been uploaded
\* from the still existing temporary directory; it had been fetched one step
\* ahead, while the second page was in flight.
C18_LastPageUploadedFromLiveDir ==
    /\ output = None
    /\ RangeLen = 3
    /\ Len(submitted) = 3
    /\ Len(yielded) = 2
    /\ cpc = "fetch"
    /\ gpc = "yielded"
    /\ dirAlive

====
